---- MODULE Spec2Model ----
(***************************************************************************)
(* A model of standup-irc's app.js: the IRC event listeners, the command   *)
(* table and the dispatcher of addressed messages.  Strings are TLA+       *)
(* strings, read character by character with SubSeq, so that the regular   *)
(* expression match, trim, split and parseInt are computed as the code     *)
(* computes them.  auth.js, utils.js and api.js are not part of the        *)
(* sources at hand: AuthManager, ifAuthorized, parseArgs and escapeRegExp  *)
(* are modelled from the design document.                                  *)
(***************************************************************************)
EXTENDS Integers, Sequences, FiniteSets, TLC

\* ------------------------------------------------------------------ bounds

\* The asynchronous work that is outstanding together: the listeners waiting
\* on pending authorization requests and the calls of the status service that
\* are in flight.
MaxOutstanding == 2

\* ------------------------------------------------------- JavaScript values

undefined == "<undefined>"
NaN == -1

\* s[i] of JavaScript, with i counted from 1.
CharAt(s, i) == IF 1 <= i /\ i <= Len(s) THEN SubSeq(s, i, i) ELSE undefined

slice(s, from) == SubSeq(s, from, Len(s))

StartsWith(s, p) == Len(s) >= Len(p) /\ SubSeq(s, 1, Len(p)) = p

WhiteSpace == {" ", "\t"}

RECURSIVE trimLeft(_)
trimLeft(s) ==
    IF Len(s) > 0 /\ CharAt(s, 1) \in WhiteSpace THEN trimLeft(slice(s, 2)) ELSE s

RECURSIVE trimRight(_)
trimRight(s) ==
    IF Len(s) > 0 /\ CharAt(s, Len(s)) \in WhiteSpace
    THEN trimRight(SubSeq(s, 1, Len(s) - 1))
    ELSE s

\* String.prototype.trim
trim(s) == trimRight(trimLeft(s))

\* The index of the first c in s, 0 when there is none.
RECURSIVE indexFrom(_, _, _)
indexFrom(s, c, i) ==
    IF i > Len(s) THEN 0
    ELSE IF CharAt(s, i) = c THEN i
    ELSE indexFrom(s, c, i + 1)

indexOf(s, c) == indexFrom(s, c, 1)

\* String.prototype.split on a one-character separator: neighbouring
\* separators give empty strings, and the empty string gives <<"">>.
RECURSIVE split(_, _)
split(s, sep) ==
    LET k == indexOf(s, sep)
    IN  IF k = 0 THEN <<s>>
        ELSE <<SubSeq(s, 1, k - 1)>> \o split(slice(s, k + 1), sep)

\* Array.prototype.join
RECURSIVE join(_, _)
join(a, sep) ==
    IF Len(a) = 0 THEN ""
    ELSE IF Len(a) = 1 THEN a[1]
    ELSE a[1] \o sep \o join(Tail(a), sep)

UpperCase == "ABCDEFGHIJKLMNOPQRSTUVWXYZ"
LowerCase == "abcdefghijklmnopqrstuvwxyz"

lowerChar(c) ==
    LET k == indexOf(UpperCase, c)
    IN  IF k = 0 THEN c ELSE CharAt(LowerCase, k)

\* String.prototype.toLowerCase
RECURSIVE toLowerCase(_)
toLowerCase(s) ==
    IF Len(s) = 0 THEN ""
    ELSE lowerChar(CharAt(s, 1)) \o toLowerCase(slice(s, 2))

Digits == "0123456789"

digitValue(c) == indexOf(Digits, c) - 1

RECURSIVE parseDigits(_, _, _)
parseDigits(s, i, acc) ==
    IF i <= Len(s) /\ indexOf(Digits, CharAt(s, i)) > 0
    THEN parseDigits(s, i + 1, 10 * acc + digitValue(CharAt(s, i)))
    ELSE acc

\* parseInt(s, 10) on the unsigned inputs of the model: the leading digits
\* after leading white space, NaN when there are none (undefined included).
parseInt(s) ==
    LET t == IF s = undefined THEN "" ELSE trimLeft(s)
    IN  IF Len(t) > 0 /\ indexOf(Digits, CharAt(t, 1)) > 0
        THEN parseDigits(t, 1, 0)
        ELSE NaN

\* A string or undefined taken as a condition.
falsy(v) == v = undefined \/ v = ""

\* a[i] of JavaScript, with i counted from 1: undefined outside the array.
at(a, i) == IF 1 <= i /\ i <= Len(a) THEN a[i] ELSE undefined

\* String(a) of an array, which is also the property key an array turns into.
ArrayToString(a) == join(a, ",")

\* JSON.parse on the payloads of the model: "{}", "{\"error\": \"<text>\"}",
\* and anything else, which is a SyntaxError.
JSONisObject(data) ==
    \/ data = "{}"
    \/ /\ StartsWith(data, "{\"error\": \"")
       /\ Len(data) >= 13
       /\ SubSeq(data, Len(data) - 1, Len(data)) = "\"}"

JSONerror(data) ==
    IF data = "{}" THEN undefined ELSE SubSeq(data, 12, Len(data) - 2)

\* ---------------------------------------------------------------- inputs

Nicks == {"bot", "bot|1"}
Users == {"alice", "bob"}

\* The channels of config.irc.channels and of the invitations.
ChannelNames == {"#dev", "#ops"}

\* What follows the address in the messages alice sends to the bot.
Bodies ==
    { "!ping", "!help", "!bye", "!hostname", "!chanlist", "!announce hi all",
      "!goto", "!goto ops", "!delete 42", "!delete", "!delete #x", "!delete 4x",
      "!status #web \"all done\"", "!update name Al", "!trust bob",
      "!constructor", "!nope 1", "!", "BotSnack" }

\* The messages the transport delivers, <<user, channel, message>>: in a
\* private message the channel is the bot's own nickname.
Inbound ==
    { <<"alice", "#dev", "bot: " \o b>> : b \in Bodies }
    \cup { <<"bob", "#dev", m>> : m \in {"bot, fixed it", "bot,!ping"} }
    \cup { <<"alice", "#dev", m>> :
              m \in {"hello everyone", "bot !ping", "Bot: !ping", "bots: !ping",
                     " bot: !ping", "bot|1: !delete 42"} }
    \cup { <<"alice", "bot", "bot: !ping">>, <<"alice", "bot", "!ping">>,
           <<"bob", "bot|1", "bot|1, botsnack">> }

\* ------------------------------------------------- the addressed-message test

RegExpSpecials == {"\\", "^", "$", ".", "|", "?", "*", "+", "(", ")", "[", "]", "{", "}", "-"}

\* utils.escapeRegExp: a backslash before every character that is special in
\* a regular expression.
RECURSIVE escapeRegExp(_)
escapeRegExp(s) ==
    IF Len(s) = 0 THEN ""
    ELSE (IF CharAt(s, 1) \in RegExpSpecials THEN "\\" \o CharAt(s, 1) ELSE CharAt(s, 1))
         \o escapeRegExp(slice(s, 2))

\* The text a pattern of plain and backslash-escaped characters matches.
RECURSIVE RegExpLiteral(_)
RegExpLiteral(p) ==
    IF Len(p) = 0 THEN ""
    ELSE IF CharAt(p, 1) = "\\" /\ Len(p) >= 2
         THEN CharAt(p, 2) \o RegExpLiteral(slice(p, 3))
         ELSE CharAt(p, 1) \o RegExpLiteral(slice(p, 2))

\* The match with the separator optional, '[:,]?': a message that only starts
\* with the nickname is taken as addressed.
targetMessageExec_OptionalSeparator(nick, message) ==
    LET lit == RegExpLiteral(nick)
    IN  IF ~StartsWith(message, lit) THEN undefined
        ELSE IF CharAt(message, Len(lit) + 1) \in {":", ","}
             THEN slice(message, Len(lit) + 2)
             ELSE slice(message, Len(lit) + 1)

\* new RegExp('^' + nick + '[:,]\\s*?(.*)$').exec(message): group 1, or
\* undefined for no match.  The lazy \s*? matches nothing, since (.*)$ can
\* take the rest of a one-line message.
targetMessageExec(nick, message) ==
    LET lit == RegExpLiteral(nick)
    IN  IF /\ StartsWith(message, lit)
           /\ CharAt(message, Len(lit) + 1) \in {":", ","}
        THEN slice(message, Len(lit) + 2)
        ELSE undefined

\* utils.parseArgs: tokens between a token that opens with a double quote and
\* the next token that closes with one are joined into one argument, without
\* the quotes; an unclosed quote leaves the tokens as they are.
RECURSIVE closingToken(_, _)
closingToken(a, j) ==
    IF j > Len(a) THEN 0
    ELSE IF /\ Len(a[j]) > 0
            /\ CharAt(a[j], Len(a[j])) = "\""
            /\ (j > 1 \/ Len(a[j]) > 1)
         THEN j
         ELSE closingToken(a, j + 1)

RECURSIVE parseArgs(_)
parseArgs(a) ==
    IF Len(a) = 0 THEN <<>>
    ELSE LET k == IF CharAt(a[1], 1) = "\"" THEN closingToken(a, 1) ELSE 0
             quoted == join(SubSeq(a, 1, k), " ")
         IN  IF k = 0 THEN <<a[1]>> \o parseArgs(Tail(a))
             ELSE <<SubSeq(quoted, 2, Len(quoted) - 1)>>
                  \o parseArgs(SubSeq(a, k + 1, Len(a)))

\* ------------------------------------------------------------ the registry

\* The own keys of the commands object, in the order of the literal ('bye' is
\* written twice there, the second entry replacing the first).
commandKeys ==
    <<"announce", "botsnack", "bye", "hostname", "chanlist", "delete", "goto",
      "help", "ping", "status", "trust", "update", "default">>

OwnKeys == {commandKeys[i] : i \in 1..Len(commandKeys)}

\* What every object literal inherits from Object.prototype: these keys are
\* defined on commands too, and none of the values has a func.
ObjectPrototypeKeys ==
    {"constructor", "toString", "toLocaleString", "valueOf", "hasOwnProperty",
     "isPrototypeOf", "propertyIsEnumerable", "__proto__", "__defineGetter__",
     "__defineSetter__", "__lookupGetter__", "__lookupSetter__"}

help(name) ==
    CASE name = "announce" -> "Broadcast a message in all other channels."
      [] name = "bye" -> "Ask the bot to leave the channel."
      [] name = "hostname" -> "Ask the bot where it is."
      [] name = "chanlist" -> "Get a list of channels that I am in."
      [] name = "delete" -> "Delete a status by id."
      [] name = "goto" -> "Tell the bot to join a channel.reg   "
      [] name = "help" -> "This help message."
      [] name = "ping" -> "A simple presence check."
      [] name = "trust" -> "Check a user's authorization status."
      [] name = "update" -> "Update the user's settings."
      [] OTHER -> undefined

usage(name) ==
    CASE name = "announce" -> "<message>"
      [] name = "delete" -> "<id>"
      [] name = "goto" -> "<channel>"
      [] name = "status" -> "<project> status message"
      [] name = "trust" -> "<user>"
      [] name = "update" -> "<name|email|github_handle> <value> [<user>]"
      [] OTHER -> undefined

\* commands[cmd_name] || commands['default']: the name of the own entry, the
\* inherited property (which is truthy) or the default entry.
resolve(cmd_name) ==
    IF cmd_name \in OwnKeys THEN cmd_name
    ELSE IF cmd_name \in ObjectPrototypeKeys THEN "Object.prototype"
    ELSE "default"

\* The order of two strings by their UTF-16 code units, as Array.prototype.sort
\* compares them (the printable ASCII characters, the grave accent left out).
CodeUnits == " !\"#$%&'()*+,-./0123456789:;<=>?@ABCDEFGHIJKLMNOPQRSTUVWXYZ[\\]^_abcdefghijklmnopqrstuvwxyz{|}~"

RECURSIVE strLess(_, _)
strLess(a, b) ==
    IF Len(b) = 0 THEN FALSE
    ELSE IF Len(a) = 0 THEN TRUE
    ELSE IF CharAt(a, 1) = CharAt(b, 1) THEN strLess(slice(a, 2), slice(b, 2))
    ELSE indexOf(CodeUnits, CharAt(a, 1)) < indexOf(CodeUnits, CharAt(b, 1))

\* The strings of a set in sorted order.
RECURSIVE sort(_)
sort(S) ==
    IF S = {} THEN <<>>
    ELSE LET m == CHOOSE x \in S : \A y \in S \ {x} : strLess(x, y)
         IN  <<m>> \o sort(S \ {m})

\* ------------------------------------------------ effects of one listener

\* One outbound call: irc_client.say/join/part/action, or a call to the
\* status service (api.status.create, api.status.delete, api.user.update).
Eff(op, args) == [op |-> op, args |-> args]

ApiOps == {"api.status.create", "api.status.delete", "api.user.update"}

\* The run of one listener: c.sent, c.invoked, c.passed, c.delivered and
\* c.logged are what it has done so far, c.emitters and c.responses the state it works on,
\* c.thrown whether an exception is on its way out, c.chans and c.pick what
\* it reads from irc_client.chans and from _.shuffle.
say(c, to, text) == [c EXCEPT !.sent = Append(@, Eff("say", <<to, text>>))]

action(c, to, text) == [c EXCEPT !.sent = Append(@, Eff("action", <<to, text>>))]

ircJoin(c, channel) == [c EXCEPT !.sent = Append(@, Eff("join", <<channel>>))]

ircPart(c, channel) == [c EXCEPT !.sent = Append(@, Eff("part", <<channel>>))]

log(c, level) == [c EXCEPT !.logged = Append(@, level)]

throw(c) == [c EXCEPT !.thrown = TRUE]

\* A call of the status service: the request goes out and its response
\* emitter waits for 'ok' or 'error'.
apiCall(c, op, args, channel, id) ==
    [c EXCEPT !.sent = Append(@, Eff(op, args)),
              !.responses = Append(@, [api |-> op, args |-> args,
                                       channel |-> channel, id |-> id])]

\* ------------------------------------------------- the authorization manager

RECURSIVE emitterOf(_, _, _)
emitterOf(emitters, nick, k) ==
    IF k > Len(emitters) THEN 0
    ELSE IF emitters[k].nick = nick THEN k
    ELSE emitterOf(emitters, nick, k + 1)

Probe(nick) == Eff("say", <<"nickserv", "status " \o nick>>)

\* authman.checkUser(nick): the emitter of the pending request for nick, made
\* and probed for when there is none.
checkUser(c, nick) ==
    LET k == emitterOf(c.emitters, nick, 1)
    IN  IF k > 0 THEN [ctx |-> c, a |-> k]
        ELSE [ctx |-> [c EXCEPT !.emitters = Append(@, [nick |-> nick, listeners |-> <<>>]),
                                !.sent = Append(@, Probe(nick))],
              a |-> Len(c.emitters) + 1]

\* a.once('authorization', listener)
once(c, a, listener) ==
    [c EXCEPT !.emitters[a].listeners = Append(@, listener)]

Listener(cmd, user, channel, args) ==
    [cmd |-> cmd, user |-> user, channel |-> channel, args |-> args]

\* utils.ifAuthorized(user, channel, callback): the callback waits for the
\* trust decision on user.
ifAuthorized(c, user, channel, cmd, args) ==
    LET r == checkUser(c, user)
    IN  once(r.ctx, r.a, Listener(cmd, user, channel, args))

\* ------------------------------------------------------------- the commands

RECURSIVE sayEach(_, _, _)
sayEach(c, chans, text) ==
    IF Len(chans) = 0 THEN c
    ELSE sayEach(say(c, chans[1], text), Tail(chans), text)

\* _.each over irc_client.chans, whose keys are taken in sorted order here.
commands_announce(c, user, channel, message, args) ==
    sayEach(c, sort(c.chans \ {channel}), join(args, " "))

botsnackReplies(user) ==
    <<"Yummy!", "Thanks, " \o user \o "!", "My favorite!", "Can I have another?", "Tasty!">>

commands_botsnack(c, user, channel, message, args) ==
    say(c, channel, botsnackReplies(user)[c.pick])

commands_bye(c, user, channel, message, args) ==
    ircPart(say(c, channel, "Bye!"), channel)

commands_hostname(c, user, channel, message, args) ==
    say(c, channel, "I'm running on " \o "localhost")

commands_chanlist(c, user, channel, message, args) ==
    say(say(c, channel, "I'm currently in:"), channel, join(sort(c.chans), ", "))

\* The callback commands.delete hands to ifAuthorized.
delete_authorized(c, user, channel, args) ==
    IF at(args, 1) = undefined THEN throw(c)
    ELSE LET id0 == IF CharAt(args[1], 1) = "#" THEN slice(args[1], 2) ELSE args[1]
             id == parseInt(id0)
         IN  IF id = NaN
             THEN say(c, channel, "\"" \o args[1] \o "\" " \o "is not a valid status ID.")
             ELSE apiCall(c, "api.status.delete", <<ToString(id), user>>, channel, id)

\* The delete that does not wait for the trust decision.
commands_delete_Unchecked(c, user, channel, message, args) ==
    delete_authorized(c, user, channel, args)

commands_delete(c, user, channel, message, args) ==
    ifAuthorized(c, user, channel, "delete", args)

\* The goto that puts '#' before every name.
commands_goto_AlwaysPrefix(c, user, channel, message, args) ==
    IF at(args, 1) = undefined THEN throw(c) ELSE ircJoin(c, "#" \o args[1])

commands_goto(c, user, channel, message, args) ==
    IF at(args, 1) = undefined THEN throw(c)
    ELSE LET join0 == IF CharAt(args[1], 1) # "#" THEN "#" \o args[1] ELSE args[1]
         IN  IF ~falsy(join0) THEN ircJoin(c, join0) ELSE c

RECURSIVE helpLines(_, _, _)
helpLines(c, channel, keys) ==
    IF Len(keys) = 0 THEN c
    ELSE LET command == keys[1]
             line == <<"!" \o command>>
                     \o (IF usage(command) # undefined THEN <<usage(command)>> ELSE <<>>)
                     \o <<"- " \o help(command)>>
         IN  helpLines(IF help(command) # undefined
                       THEN say(c, channel, join(line, " "))
                       ELSE c,
                       channel, Tail(keys))

\* _.keys(commands).sort()
sortedKeys == sort(OwnKeys)

\* The help that lists the entries in the order of the literal.
commands_help_Unsorted(c, user, channel, message, args) ==
    helpLines(say(c, channel, "Available commands:"), channel, commandKeys)

commands_help(c, user, channel, message, args) ==
    helpLines(say(c, channel, "Available commands:"), channel, sortedKeys)

commands_ping(c, user, channel, message, args) ==
    say(c, channel, "Pong!")

commands_status(c, user, channel, message, args) ==
    ifAuthorized(c, user, channel, "status", args)

\* The callback commands.status hands to ifAuthorized.
status_authorized(c, user, channel, args) ==
    IF at(args, 1) = undefined THEN throw(c)
    ELSE LET project == IF CharAt(args[1], 1) = "#" THEN slice(args[1], 2) ELSE args[1]
             status == join(Tail(args), " ")
         IN  apiCall(c, "api.status.create", <<user, project, status>>, channel, 0)

\* The trust command that asks the identity service itself on every call,
\* besides the check it registers with the manager.
commands_trust_Reprobe(c, user, channel, message, args) ==
    LET c1 == [c EXCEPT !.sent = Append(@, Probe(ArrayToString(args)))]
        r == checkUser(c1, ArrayToString(args))
    IN  once(r.ctx, r.a, Listener("trust", user, channel, args))

commands_trust(c, user, channel, message, args) ==
    LET r == checkUser(c, ArrayToString(args))
    IN  once(r.ctx, r.a, Listener("trust", user, channel, args))

\* The listener commands.trust registers.
trust_authorization(c, channel, args, trust) ==
    IF trust THEN say(c, channel, "I trust " \o ArrayToString(args))
    ELSE say(c, channel, "I don't trust " \o ArrayToString(args))

commands_update(c, user, channel, message, args) ==
    ifAuthorized(c, user, channel, "update", args)

\* The callback commands.update hands to ifAuthorized.
update_authorized(c, user, channel, args) ==
    LET what == at(args, 1)
        value == at(args, 2)
        who == IF falsy(at(args, 3)) THEN user ELSE at(args, 3)
    IN  IF ~falsy(what) /\ ~falsy(value)
        THEN apiCall(c, "api.user.update", <<user, what, value, who>>, channel, 0)
        ELSE c

commands_default(c, user, channel, message, args) ==
    say(c, channel, user \o ": Huh? Try !help.")

\* cmd.func(user, channel, message, args) on the entry called name.
func(c, name, user, channel, message, args) ==
    LET c1 == [c EXCEPT !.invoked = Append(@, name), !.passed = Append(@, args)]
    IN  CASE name = "announce" -> commands_announce(c1, user, channel, message, args)
          [] name = "botsnack" -> commands_botsnack(c1, user, channel, message, args)
          [] name = "bye" -> commands_bye(c1, user, channel, message, args)
          [] name = "hostname" -> commands_hostname(c1, user, channel, message, args)
          [] name = "chanlist" -> commands_chanlist(c1, user, channel, message, args)
          [] name = "delete" -> commands_delete(c1, user, channel, message, args)
          [] name = "goto" -> commands_goto(c1, user, channel, message, args)
          [] name = "help" -> commands_help(c1, user, channel, message, args)
          [] name = "ping" -> commands_ping(c1, user, channel, message, args)
          [] name = "status" -> commands_status(c1, user, channel, message, args)
          [] name = "trust" -> commands_trust(c1, user, channel, message, args)
          [] name = "update" -> commands_update(c1, user, channel, message, args)
          [] name = "default" -> commands_default(c1, user, channel, message, args)
          [] OTHER -> throw(c)

\* The listener of 'authorization' that was registered as l, run with the
\* decision: the reply of trust, or the privileged callback of ifAuthorized,
\* which runs for a trusted user and does nothing otherwise.
authorization(c, l, trust) ==
    IF l.cmd = "trust" THEN trust_authorization(c, l.channel, l.args, trust)
    ELSE IF ~trust THEN c
    ELSE CASE l.cmd = "delete" -> delete_authorized(c, l.user, l.channel, l.args)
           [] l.cmd = "status" -> status_authorized(c, l.user, l.channel, l.args)
           [] l.cmd = "update" -> update_authorized(c, l.user, l.channel, l.args)

\* emitter.emit('authorization', trust): the listeners run in the order they
\* were registered, each taken off the emitter before it runs (once); a
\* listener that throws ends the emit and the rest is not called.
RECURSIVE emit(_, _, _)
emit(c, a, trust) ==
    IF c.thrown \/ Len(c.emitters[a].listeners) = 0 THEN c
    ELSE LET l == c.emitters[a].listeners[1]
             c1 == [c EXCEPT !.emitters[a].listeners = Tail(@),
                             !.delivered = Append(@, [nick |-> c.emitters[a].nick,
                                                      listener |-> l,
                                                      trust |-> trust])]
         IN  emit(authorization(c1, l, trust), a, trust)

without(q, k) == SubSeq(q, 1, k - 1) \o SubSeq(q, k + 1, Len(q))

\* The resolution that tells the listeners and keeps the request.
resolveRequest_Keep(c, a, trust) == emit(c, a, trust)

\* The pending request a is resolved: every listener is told, then the request
\* is removed.
resolveRequest(c, a, trust) ==
    LET c1 == emit(c, a, trust)
    IN  IF c1.thrown THEN c1 ELSE [c1 EXCEPT !.emitters = without(@, a)]

TrustLevels == {"0", "1", "2", "3"}

\* The reply of the identity service in text: "STATUS <nick> <level>", level 3
\* for a nick that is identified.  Anything else is noise.
isReply(text) ==
    LET t == split(text, " ")
    IN  Len(t) = 3 /\ t[1] = "STATUS" /\ t[3] \in TrustLevels

replyNick(text) == split(text, " ")[2]

replyTrust(text) == split(text, " ")[3] = "3"

\* The notice handler that gives a reply to the oldest pending request,
\* whatever nickname it names.
authman_notice_Oldest(c, from, text) ==
    IF ~isReply(text) \/ Len(c.emitters) = 0 THEN log(c, "info")
    ELSE resolveRequest(c, 1, replyTrust(text))

\* authman.notice(from, text): a reply that names a nick with a pending
\* request resolves that request; every other text is logged and dropped.
authman_notice(c, from, text) ==
    LET a == IF isReply(text) THEN emitterOf(c.emitters, replyNick(text), 1) ELSE 0
    IN  IF a = 0 THEN log(c, "info")
        ELSE resolveRequest(c, a, replyTrust(text))

\* The bounded wait on the request a is over: not trusted.
authman_timeout(c, a) == resolveRequest(log(c, "info"), a, FALSE)

\* ------------------------------------------------------------ the listeners

\* The head of the 'message' listener: the match against the address, and for
\* a match the trimmed text, the command name and the parsed arguments.
parseMessage(nick, message) ==
    LET match == targetMessageExec(escapeRegExp(nick), message)
        text == trim(match)
        tokens == split(text, " ")
    IN  IF match = undefined
        THEN [match |-> undefined, text |-> "", cmd_name |-> "", args |-> <<>>]
        ELSE [match |-> match, text |-> text, cmd_name |-> slice(tokens[1], 2),
              args |-> parseArgs(Tail(tokens))]

\* parseMessage on the nicknames and messages of the model, computed once.
parsedMessages ==
    [nick \in Nicks |-> [message \in {m[3] : m \in Inbound} |-> parseMessage(nick, message)]]

\* The 'message' listener that compares the reserved phrase as it was typed.
onMessage_CaseSensitive(c, nick, user, channel, message) ==
    LET p == parsedMessages[nick][message]
    IN  IF p.match = undefined THEN c
        ELSE IF CharAt(p.text, 1) = "!"
             THEN func(c, resolve(p.cmd_name), user, channel, p.text, p.args)
             ELSE IF p.text = "botsnack"
                  THEN func(c, "botsnack", user, channel, p.text, <<>>)
                  ELSE func(c, "status", user, channel, p.text, <<channel, p.text>>)

\* irc_client.on('message')
onMessage(c, nick, user, channel, message) ==
    LET p == parsedMessages[nick][message]
    IN  IF p.match = undefined THEN c
        ELSE IF CharAt(p.text, 1) = "!"
             THEN func(c, resolve(p.cmd_name), user, channel, p.text, p.args)
             ELSE IF toLowerCase(p.text) = "botsnack"
                  THEN func(c, "botsnack", user, channel, p.text, <<>>)
                  ELSE func(c, "status", user, channel, p.text, <<channel, p.text>>)

\* The 'notice' listener that hands the notices of every sender to the manager.
onNotice_AnySender(c, from, to, text) ==
    IF from = undefined THEN authman_notice(log(c, "info"), "", text)
    ELSE authman_notice(c, toLowerCase(from), text)

\* The 'notice' listener without its test for a notice of the server itself:
\* from.toLowerCase() on undefined is a TypeError.
onNotice_Unguarded(c, from, to, text) ==
    IF from = undefined THEN throw(c)
    ELSE IF toLowerCase(from) = "nickserv" THEN authman_notice(c, toLowerCase(from), text)
    ELSE c

\* irc_client.on('notice'): a notice of the server itself comes without a
\* sender and is logged; only what nickserv sends goes to the manager.
onNotice(c, from, to, text) ==
    LET c1 == IF from = undefined THEN log(c, "info") ELSE c
        from1 == toLowerCase(IF from = undefined THEN "" ELSE from)
    IN  IF from1 = "nickserv" THEN authman_notice(c1, from1, text) ELSE c1

\* irc_client.on('invite')
onInvite(c, channel, from) ==
    func(log(c, "info"), "goto", from, channel, "", <<channel>>)

\* irc_client.on('kick'): commands['bye'] is the entry, not its func, and
\* calling it is a TypeError.
onKick(c, nick, channel, user, by) ==
    IF user = nick THEN throw(log(c, "info")) ELSE c

\* irc_client.on('error')
onError(c, rawCommand, hasStack) ==
    IF rawCommand # "421" THEN c
    ELSE IF hasStack THEN log(log(c, "error"), "error") ELSE log(c, "error")

\* The 'ok' listener that goes on into the reply for a failure.
onOk_AndFailure(c, r, id) ==
    say(say(c, r.channel, "Ok, submitted status #" \o ToString(id)),
        r.channel, "Uh oh, something went wrong.")

\* response.once('ok', ...) of the call r
onOk(c, r, id) ==
    CASE r.api = "api.status.delete" ->
            say(c, r.channel, "Ok, status #" \o ToString(r.id) \o " is no more!")
      [] r.api = "api.status.create" ->
            say(c, r.channel, "Ok, submitted status #" \o ToString(id))
      [] r.api = "api.user.update" ->
            action(c, r.channel, "updates some stuff!")

failure(detail) ==
    "I'm a failure, I couldn't do it."
    \o (IF ~falsy(detail) THEN " The server said: \"" \o detail \o "\"" ELSE "")

\* response.once('error', ...) of the call r.  Only the delete listener parses
\* data; the update listener reads .error off the data as it comes, a string.
onError_response(c, r, code, data) ==
    CASE r.api = "api.status.delete" ->
            IF ~JSONisObject(data) THEN throw(c)
            ELSE IF code = 403
                 THEN say(c, r.channel, "You don't have permission to do "
                                        \o "that. Did you post that status?")
                 ELSE say(c, r.channel, failure(JSONerror(data)))
      [] r.api = "api.status.create" ->
            say(c, r.channel, "Uh oh, something went wrong.")
      [] r.api = "api.user.update" ->
            IF code = 403
            THEN say(c, r.channel, "You don't have permission to do " \o "that.")
            ELSE say(c, r.channel, failure(undefined))

\* ------------------------------------------------------------------ state

VARIABLES
    realNick,   \* config.irc.realNick: the nickname the server assigned
    emitters,   \* authman: the pending authorization requests, oldest first
    responses,  \* the calls to the status service that wait for their response
    uncaught,   \* an exception left a listener: node has ended the process
    event,      \* the event whose listener has just run, "idle" between events
    sent,       \* what that listener sent: say, join, part, action, api calls
    invoked,    \* the commands whose func it called
    passed,     \* the argument list of each of these calls
    delivered,  \* the trust decisions it delivered to 'authorization' listeners
    logged      \* the levels of its logger calls

vars == <<realNick, emitters, responses, uncaught, event, sent, invoked, passed, delivered, logged>>

\* An event of the loop, its arguments as strings.
Event(type, args) == [type |-> type, args |-> args]

Idle == Event("idle", <<>>)

\* The run of a listener starts with nothing done.
Ctx(chans, pick) ==
    [sent |-> <<>>, invoked |-> <<>>, passed |-> <<>>, delivered |-> <<>>, logged |-> <<>>,
     thrown |-> FALSE, emitters |-> emitters, responses |-> responses,
     chans |-> chans, pick |-> pick]

RECURSIVE listenerCount(_)
listenerCount(es) ==
    IF Len(es) = 0 THEN 0 ELSE Len(es[1].listeners) + listenerCount(Tail(es))

\* The process runs and the event loop is free to take the next event.
Ready == ~uncaught /\ event = Idle

\* The event loop takes the event e and its listener runs to its end, a
\* return or an exception nothing catches: what it did is the new state.
Handled(e, c) ==
    /\ listenerCount(c.emitters) + Len(c.responses) <= MaxOutstanding
    /\ event' = e
    /\ emitters' = c.emitters
    /\ responses' = c.responses
    /\ uncaught' = c.thrown
    /\ sent' = c.sent
    /\ invoked' = c.invoked
    /\ passed' = c.passed
    /\ delivered' = c.delivered
    /\ logged' = c.logged

Init ==
    /\ realNick = undefined
    /\ emitters = <<>>
    /\ responses = <<>>
    /\ uncaught = FALSE
    /\ event = Idle
    /\ sent = <<>>
    /\ invoked = <<>>
    /\ passed = <<>>
    /\ delivered = <<>>
    /\ logged = <<>>

\* The listener has returned and the event loop waits for the next event.
Return ==
    /\ ~uncaught
    /\ event # Idle
    /\ event' = Idle
    /\ sent' = <<>>
    /\ invoked' = <<>>
    /\ passed' = <<>>
    /\ delivered' = <<>>
    /\ logged' = <<>>
    /\ UNCHANGED <<realNick, emitters, responses, uncaught>>

\* irc_client.on('registered'): the server's welcome names the nickname.
Registered(nick) ==
    /\ Ready
    /\ realNick' = nick
    /\ \E c \in {log(log(Ctx({}, 1), "info"), "info")} :
          Handled(Event("registered", <<nick>>), c)

\* What a message draws from outside: the channels the client is in, for the
\* commands that read irc_client.chans, and the reply _.shuffle puts first,
\* for botsnack.
ChansRead(names) ==
    IF \E i \in 1..Len(names) : names[i] \in {"announce", "chanlist"}
    THEN {{"#dev"}, ChannelNames} ELSE {{}}

PicksRead(names) ==
    IF \E i \in 1..Len(names) : names[i] = "botsnack" THEN 1..5 ELSE {1}

Message(user, channel, message) ==
    /\ Ready
    /\ realNick # undefined
    /\ \E c0 \in {onMessage(Ctx({}, 1), realNick, user, channel, message)} :
          \E chans \in ChansRead(c0.invoked), pick \in PicksRead(c0.invoked) :
             \E c \in {IF c0.invoked = <<>> THEN c0
                       ELSE onMessage(Ctx(chans, pick), realNick, user, channel, message)} :
                Handled(Event("message", <<user, channel, message>>), c)
    /\ UNCHANGED realNick

\* The notices the transport delivers, <<from, text>>.
Notices ==
    { <<"NickServ", text>> :
         text \in {"STATUS alice 3", "STATUS alice 1", "STATUS bob 3", "STATUS bob 0",
                   "STATUS carol 3", "STATUS alice", "You are now identified."} }
    \cup { <<"nickserv", "STATUS bob 3">>, <<"mallory", "STATUS alice 3">>,
           <<undefined, "STATUS alice 3">> }

Notice(from, text) ==
    /\ Ready
    /\ realNick # undefined
    /\ \E c \in {onNotice(Ctx({}, 1), from, realNick, text)} :
          Handled(Event("notice", <<from, realNick, text>>), c)
    /\ UNCHANGED realNick

Timeout(a) ==
    /\ Ready
    /\ a \in 1..Len(emitters)
    /\ \E c \in {authman_timeout(Ctx({}, 1), a)} :
          Handled(Event("timeout", <<emitters[a].nick>>), c)
    /\ UNCHANGED realNick

Invite(channel, from) ==
    /\ Ready
    /\ realNick # undefined
    /\ \E c \in {onInvite(Ctx({}, 1), channel, from)} :
          Handled(Event("invite", <<channel, from>>), c)
    /\ UNCHANGED realNick

Kick(channel, user, by) ==
    /\ Ready
    /\ realNick # undefined
    /\ \E c \in {onKick(Ctx({}, 1), realNick, channel, user, by)} :
          Handled(Event("kick", <<channel, user, by>>), c)
    /\ UNCHANGED realNick

IrcError(rawCommand, hasStack) ==
    /\ Ready
    /\ \E c \in {onError(Ctx({}, 1), rawCommand, hasStack)} :
          Handled(Event("error", <<rawCommand, IF hasStack THEN "stack" ELSE "">>), c)
    /\ UNCHANGED realNick

\* The call k is answered and its response emitter is done.
answered(k) == [Ctx({}, 1) EXCEPT !.responses = without(@, k)]

\* The status service answers the call k with 'ok'.
Ok(k, id) ==
    /\ Ready
    /\ k \in 1..Len(responses)
    /\ \E c \in {onOk(answered(k), responses[k], id)} :
          Handled(Event("ok", <<responses[k].api, ToString(id), responses[k].channel>>), c)
    /\ UNCHANGED realNick

\* The status service answers the call k with 'error'.
Failed(k, code, data) ==
    /\ Ready
    /\ k \in 1..Len(responses)
    /\ \E c \in {onError_response(answered(k), responses[k], code, data)} :
          Handled(Event("failed", <<responses[k].api, ToString(code), data,
                                   responses[k].channel>>), c)
    /\ UNCHANGED realNick

StatusIds == {7}
ErrorCodes == {403, 500}
ErrorData == {"{}", "{\"error\": \"boom\"}", "Bad Gateway"}

Next ==
    \/ Return
    \/ \E nick \in Nicks : Registered(nick)
    \/ \E m \in Inbound : Message(m[1], m[2], m[3])
    \/ \E n \in Notices : Notice(n[1], n[2])
    \/ \E a \in 1..MaxOutstanding : Timeout(a)
    \/ \E channel \in {"#ops", "ops"} : Invite(channel, "alice")
    \/ \E user \in {"bob"} \cup Nicks : Kick("#dev", user, "alice")
    \/ \E rawCommand \in {"421", "433"}, hasStack \in BOOLEAN : IrcError(rawCommand, hasStack)
    \/ \E k \in 1..MaxOutstanding, id \in StatusIds : Ok(k, id)
    \/ \E k \in 1..MaxOutstanding, code \in ErrorCodes, data \in ErrorData : Failed(k, code, data)

Spec == Init /\ [][Next]_vars

\* ------------------------------------------------------------ the dispatcher

\* The message of the event begins with the nickname and ':' or ','.
beginsWithAddress(nick, message) ==
    /\ StartsWith(message, nick)
    /\ CharAt(message, Len(nick) + 1) \in {":", ","}

Unaddressed ==
    event.type = "message" /\ ~beginsWithAddress(realNick, event.args[3])

\* C1: a message that does not begin with the bot's current nickname followed
\* by ':' or ',' calls no command and has no outbound effect: nothing is
\* said, joined, parted, probed for or asked of the status service, no trust
\* decision is delivered and no exception is raised.
C1_UnaddressedIgnored ==
    Unaddressed =>
        /\ invoked = <<>>
        /\ sent = <<>>
        /\ delivered = <<>>
        /\ ~uncaught

\* An unaddressed message that starts like the nickname, while an
\* authorization request is pending.
C1_Witness ==
    /\ Unaddressed
    /\ StartsWith(event.args[3], "bot")
    /\ Len(emitters) > 0

\* The user on whose behalf a call of the status service is made.
requester(e) == IF e.op = "api.status.delete" THEN e.args[2] ELSE e.args[1]

\* The command a call of the status service belongs to.
commandOf(e) ==
    CASE e.op = "api.status.create" -> "status"
      [] e.op = "api.status.delete" -> "delete"
      [] e.op = "api.user.update" -> "update"

ApiCalls == {i \in 1..Len(sent) : sent[i].op \in ApiOps}

\* C2: a call of the status service (create, delete, update) is made only by
\* the listener of a trust decision that is positive and is the decision on
\* the requesting nickname for that command; a step that delivers no positive
\* decision for the requester makes no call.
C2_CallOnlyWhenTrusted ==
    \A i \in ApiCalls :
        \E j \in 1..Len(delivered) :
            /\ delivered[j].trust
            /\ delivered[j].nick = requester(sent[i])
            /\ delivered[j].listener.user = requester(sent[i])
            /\ delivered[j].listener.cmd = commandOf(sent[i])

\* A delete is sent to the status service after the requester was found
\* trusted.
C2_Witness ==
    \E i \in ApiCalls : sent[i].op = "api.status.delete" /\ event.type = "notice"

\* The parse of the message of the event.
parsedEvent == parsedMessages[realNick][event.args[3]]

AddressedEvent == event.type = "message" /\ parsedEvent.match # undefined

\* An addressed '!<name> ...' whose name is no entry of the command table.
UnregisteredCommand ==
    /\ AddressedEvent
    /\ CharAt(parsedEvent.text, 1) = "!"
    /\ parsedEvent.cmd_name \notin OwnKeys

\* C3, as claimed: an addressed '!<name>' with a name that is not registered
\* does not fail, calls the default entry and sends exactly one
\* 'Huh? Try !help.' to the channel of the message.
C3_UnknownGetsDefault ==
    UnregisteredCommand =>
        /\ ~uncaught
        /\ invoked = <<"default">>
        /\ sent = <<Eff("say", <<event.args[2], event.args[1] \o ": Huh? Try !help.">>)>>

\* C4, as claimed: a command whose func raised while the 'message' listener
\* ran does not end the process: the exception is caught at the dispatcher.
C4_HandlerFailureCaught ==
    (event.type = "message" /\ invoked # <<>>) => ~uncaught

\* The command an addressed message is meant to call.
expectedCommand ==
    IF CharAt(parsedEvent.text, 1) = "!"
    THEN (IF parsedEvent.cmd_name \in OwnKeys THEN parsedEvent.cmd_name ELSE "default")
    ELSE IF toLowerCase(parsedEvent.text) = "botsnack" THEN "botsnack"
    ELSE "status"

\* C5, as claimed: every addressed message calls exactly one command exactly
\* once: the resolved entry for '!', botsnack for the reserved phrase, status
\* for anything else.
C5_ExactlyOneHandler ==
    AddressedEvent => invoked = <<expectedCommand>>

\* ------------------------------------------------ the authorization manager

\* The nicknames with a pending request, and the requests of one nickname.
nicks(es) == {es[k].nick : k \in 1..Len(es)}

requests(es, nick) == {k \in 1..Len(es) : es[k].nick = nick}

probes(effects, nick) == {i \in 1..Len(effects) : effects[i] = Probe(nick)}

isPrefix(p, q) == Len(p) <= Len(q) /\ SubSeq(q, 1, Len(p)) = p

\* C6: no nickname ever has more than one pending request; a check made while
\* the request of its nickname is pending sends no probe and joins the
\* listeners of that request, which stay as they were; a request that is new
\* was probed for exactly once; and the listeners of one request are all
\* given the same decision.
C6_Step ==
    /\ \A nick \in nicks(emitters') : Cardinality(requests(emitters', nick)) = 1
    /\ event'.type = "message" =>
          /\ \A nick \in nicks(emitters) : probes(sent', nick) = {}
          /\ \A k \in 1..Len(emitters) :
                /\ k <= Len(emitters')
                /\ emitters'[k].nick = emitters[k].nick
                /\ isPrefix(emitters[k].listeners, emitters'[k].listeners)
    /\ \A nick \in nicks(emitters') \ nicks(emitters) :
          Cardinality(probes(sent', nick)) = 1
    /\ \A i, j \in 1..Len(delivered') :
          delivered'[i].nick = delivered'[j].nick =>
             delivered'[i].trust = delivered'[j].trust

Pending(nick) == nick \in nicks(emitters)

TimeoutOf(nick) ==
    \E a \in 1..MaxOutstanding : a <= Len(emitters) /\ emitters[a].nick = nick /\ Timeout(a)

\* The event loop goes on to the next event, and the timer of a pending
\* request fires.
FairSpec ==
    /\ Spec
    /\ WF_vars(Return)
    /\ \A nick \in Users : SF_vars(TimeoutOf(nick))

\* C7, as claimed: every authorization check resolves in the end, by a reply
\* or by the timeout: no request stays pending for ever.
C7_EveryCheckResolves ==
    \A nick \in Users : Pending(nick) ~> ~Pending(nick)

\* C8: a reply of the identity service that resolves anything resolves the
\* request of the nickname it names and no other: every pending request of
\* another nickname is still pending after it, with the same listeners.
C8_Step ==
    (event'.type = "notice" /\ delivered' # <<>>) =>
        /\ \A j \in 1..Len(delivered') : delivered'[j].nick = replyNick(event'.args[3])
        /\ \A k \in 1..Len(emitters) :
              emitters[k].nick # replyNick(event'.args[3]) =>
                 \E k2 \in 1..Len(emitters') : emitters'[k2] = emitters[k]

\* C8 holds of every step of the program.
C8_ReplyResolvesItsOwn == [][C8_Step]_vars

\* A reply has resolved the request of one nickname while the request of
\* another is pending.
C8_Witness ==
    /\ event.type = "notice"
    /\ delivered # <<>>
    /\ Len(emitters) > 0
    /\ emitters[1].nick # delivered[1].nick
    /\ emitters[1].listeners # <<>>

\* The text is a reply on a nickname with a pending request among es.
correlated(text, es) == isReply(text) /\ replyNick(text) \in nicks(es)

\* C9: a notice whose text matches no pending request (a nickname without a
\* request, or a text that is no reply) leaves the pending requests and their
\* listeners as they were, delivers no decision, sends nothing and raises
\* nothing.
C9_Step ==
    (event'.type = "notice" /\ ~correlated(event'.args[3], emitters)) =>
        /\ emitters' = emitters
        /\ delivered' = <<>>
        /\ sent' = <<>>
        /\ ~uncaught'

\* C9 holds of every step of the program.
C9_StrayNoticeChangesNothing == [][C9_Step]_vars

\* The identity service has sent a reply on a nickname nobody asked about,
\* while a request is pending.
C9_Witness ==
    /\ event.type = "notice"
    /\ toLowerCase(event.args[1]) = "nickserv"
    /\ isReply(event.args[3])
    /\ ~correlated(event.args[3], emitters)
    /\ Len(emitters) > 0

Privileged == {"delete", "status", "update"}

\* C10: a resolution that ran to its end has removed the request; a check of
\* a nickname without a pending request sends a probe and is not answered in
\* that step; and a decision is delivered only by a reply, as that reply
\* reads, or by the timeout, as not trusted.
C10_Step ==
    /\ (event'.type \in {"notice", "timeout"} /\ delivered' # <<>> /\ ~uncaught') =>
          delivered'[1].nick \notin nicks(emitters')
    /\ (event'.type = "message" /\ Len(invoked') = 1 /\ invoked'[1] \in Privileged
        /\ event'.args[1] \notin nicks(emitters)) =>
          /\ probes(sent', event'.args[1]) # {}
          /\ event'.args[1] \in nicks(emitters')
    /\ event'.type \notin {"notice", "timeout"} => delivered' = <<>>
    /\ \A j \in 1..Len(delivered') :
          delivered'[j].trust = (event'.type = "notice" /\ replyTrust(event'.args[3]))

\* C10 holds of every step of the program.
C10_NoCachedDecision == [][C10_Step]_vars

\* alice was found trusted before (her delete is with the status service) and
\* a later check of alice is answered as the new reply reads: not trusted.
C10_Witness ==
    /\ event.type = "notice"
    /\ \E j \in 1..Len(delivered) : delivered[j].nick = "alice" /\ ~delivered[j].trust
    /\ \E k \in 1..Len(responses) :
          responses[k].api = "api.status.delete" /\ responses[k].args[2] = "alice"

\* ------------------------------------------------- the replies of the commands

EndsWith(s, p) == Len(s) >= Len(p) /\ SubSeq(s, Len(s) - Len(p) + 1, Len(s)) = p

\* The text is a number written in decimal digits.
isNumber(s) == Len(s) > 0 /\ \A i \in 1..Len(s) : indexOf(Digits, CharAt(s, i)) > 0

stripHash(s) == IF CharAt(s, 1) = "#" THEN slice(s, 2) ELSE s

\* An addressed '!delete <x>' whose <x>, without a leading '#', is no number.
MalformedDelete ==
    /\ AddressedEvent
    /\ CharAt(parsedEvent.text, 1) = "!"
    /\ parsedEvent.cmd_name = "delete"
    /\ Len(parsedEvent.args) > 0
    /\ ~isNumber(stripHash(parsedEvent.args[1]))

\* C11, as claimed: an addressed '!delete <x>' with <x> not a number is
\* answered in the step that dispatches it, for every requester, with
\* '"<x>" is not a valid status ID.' on the channel, and no call of the status
\* service is made for it.
C11_MalformedDeleteReported ==
    MalformedDelete =>
        /\ \E i \in 1..Len(sent) :
              /\ sent[i].op = "say"
              /\ sent[i].args[1] = event.args[2]
              /\ EndsWith(sent[i].args[2],
                          stripHash(parsedEvent.args[1]) \o "\" is not a valid status ID.")
        /\ ApiCalls = {}

\* C12, as claimed: a delete that ends in failure is answered with exactly one
\* reply on the channel of the command, whatever the payload: the wording for
\* a denied permission when the code is 403, the wording for a failure, with
\* the detail of the service when there is one, for every other code.
C12_DeleteFailureAnswered ==
    (event.type = "failed" /\ event.args[1] = "api.status.delete") =>
        /\ ~uncaught
        /\ Len(sent) = 1
        /\ sent[1].op = "say"
        /\ sent[1].args[1] = event.args[4]
        /\ IF event.args[2] = "403"
           THEN StartsWith(sent[1].args[2], "You don't have permission")
           ELSE StartsWith(sent[1].args[2], "I'm a failure, I couldn't do it.")

\* The channel of the command whose call was answered in this event.
answeredChannel(e) == IF e.type = "ok" THEN e.args[3] ELSE e.args[4]

\* C13: the answer to a call of the status service, 'ok' or 'error', gives at
\* most one message, a say or an action on the channel of the command, and
\* the call waits for no further answer after it.
C13_Step ==
    event'.type \in {"ok", "failed"} =>
        /\ Len(sent') <= 1
        /\ \A i \in 1..Len(sent') :
              /\ sent'[i].op \in {"say", "action"}
              /\ sent'[i].args[1] = answeredChannel(event')
        /\ Len(responses') = Len(responses) - 1

\* C13 holds of every step of the program.
C13_OneReplyPerOutcome == [][C13_Step]_vars

\* A call was answered with its one reply while another call is in flight.
C13_Witness ==
    /\ event.type \in {"ok", "failed"}
    /\ Len(sent) = 1
    /\ Len(responses) > 0

\* An addressed message without the command marker.
ImplicitEvent == AddressedEvent /\ CharAt(parsedEvent.text, 1) # "!"

C15_KickTriggersBye ==
    event.type = "kick" =>
        IF event.args[2] = realNick
        THEN /\ ~uncaught
             /\ invoked = <<"bye">>
             /\ \E i \in 1..Len(sent) : sent[i] = Eff("part", <<event.args[1]>>)
        ELSE invoked = <<>> /\ sent = <<>>

\* C16, as claimed: every error of the transport other than 421 is logged, and
\* none of them leaves the listener as an exception.
C16_ErrorsLogged ==
    event.type = "error" =>
        /\ ~uncaught
        /\ (event.args[1] # "421" => logged # <<>>)

\* ------------------------------------------------------------------ help

\* The registered commands that have a help text.
Listed == {n \in OwnKeys : help(n) # undefined}

\* The line of the listing for the command n.
helpLine(n) ==
    "!" \o n \o (IF usage(n) # undefined THEN " " \o usage(n) ELSE "")
    \o " - " \o help(n)

\* The command a line of the listing is about.
lineName(e) == slice(split(e.args[2], " ")[1], 2)

\* C17: help says 'Available commands:' and then one line for each registered
\* command that has a help text, no other line and none twice, in the order of
\* the names, the usage in the line only when the command has one; botsnack,
\* status and default are not listed and are entries that dispatch resolves.
C17_HelpListing ==
    (event.type = "message" /\ invoked = <<"help">>) =>
        /\ Len(sent) = 1 + Cardinality(Listed)
        /\ sent[1] = Eff("say", <<event.args[2], "Available commands:">>)
        /\ \A n \in Listed :
              \E i \in 2..Len(sent) : sent[i] = Eff("say", <<event.args[2], helpLine(n)>>)
        /\ \A i, j \in 2..Len(sent) :
              i < j => strLess(lineName(sent[i]), lineName(sent[j]))
        /\ \A n \in {"botsnack", "status", "default"} :
              n \notin Listed /\ resolve(n) = n

\* The listing was sent: the head line and the ten commands with a help text.
C17_Witness ==
    /\ event.type = "message"
    /\ invoked = <<"help">>
    /\ Len(sent) = 11
    /\ sent[2] = Eff("say", <<"#dev", "!announce <message> - Broadcast a message in all other channels.">>)

\* ------------------------------------------------ notices, private messages

\* C18: a notice whose sender, in lower case, is not 'nickserv' (a missing
\* sender included) does not reach the authorization manager: whatever its
\* text, the pending requests and their listeners stay as they were, no
\* decision is delivered, nothing is sent and nothing is raised.
C18_Step ==
    (event'.type = "notice" /\ toLowerCase(event'.args[1]) # "nickserv") =>
        /\ emitters' = emitters
        /\ delivered' = <<>>
        /\ sent' = <<>>
        /\ ~uncaught'

\* C18 holds of every step of the program.
C18_OnlyNickservReachesManager == [][C18_Step]_vars

\* Someone else has sent the reply that would resolve a pending request.
C18_Witness ==
    /\ event.type = "notice"
    /\ event.args[1] = "mallory"
    /\ correlated(event.args[3], emitters)

\* C19, as claimed: a private message, whose channel is the bot's own
\* nickname, calls no command and sends nothing, whatever its text.
C19_PrivateMessagesIgnored ==
    (event.type = "message" /\ event.args[2] = realNick) =>
        invoked = <<>> /\ sent = <<>>

\* C20: an invitation calls goto with the channel as its only argument and
\* sends exactly one join and nothing else, for the channel when its name
\* starts with '#' and for '#' and the name otherwise; no authorization
\* request is made or touched and nothing is raised.
C20_Step ==
    event'.type = "invite" =>
        LET channel == event'.args[1]
        IN  /\ invoked' = <<"goto">>
            /\ passed' = << <<channel>> >>
            /\ sent' = <<Eff("join", <<IF CharAt(channel, 1) = "#"
                                       THEN channel ELSE "#" \o channel>>)>>
            /\ emitters' = emitters
            /\ delivered' = <<>>
            /\ ~uncaught'

\* C20 holds of every step of the program.
C20_InviteJoins == [][C20_Step]_vars

\* The bot was invited to 'ops' while a request was pending, and joined '#ops'.
C20_Witness ==
    /\ event.type = "invite"
    /\ event.args[1] = "ops"
    /\ sent = <<Eff("join", <<"#ops">>)>>
    /\ Len(emitters) > 0
====
